---- MODULE Spec2Model ----
(***************************************************************************)
(* Model of the point-of-sale core: Store (pos/store.py), Cart and         *)
(* CartItem (pos/models.py) and POSSystem (pos/pos.py).                    *)
(*                                                                         *)
(* Money is counted in cents.  Every float the code rounds with            *)
(* round(x, 2) is a whole number of cents afterwards; Round2 below does    *)
(* the rounding, and the direction of a tie is the one the binary float    *)
(* computation takes (TaxTieUp).                                           *)
(***************************************************************************)
EXTENDS Integers, Sequences, FiniteSets

VARIABLES
    products,             \* Store._products: id -> [price, stock]
    next_id,              \* Store._next_id
    items,                \* Cart.items: sequence of [id, quantity]
    discount_percent,     \* Cart.discount_percent
    transaction_counter,  \* POSSystem._transaction_counter
    last_receipt,         \* POSSystem._last_receipt: <<>> (None) or <<receipt>>
    receipts_produced,    \* history: the number of Receipts checkout has built
    receipts,             \* the Receipt objects still referred to, oldest
                          \* first: those the caller has kept and the one
                          \* _last_receipt refers to.  [receipt, live], live
                          \* the product ids whose CartItem in cart_snapshot
                          \* is still a line of the cart (the same object)
    last                  \* history: the last call made, [op, args, result],
                          \* with the number of cart lines before it (lines)
                          \* and the call before it (prev)

vars == <<products, next_id, items, discount_percent, transaction_counter,
          last_receipt, receipts_produced, receipts, last>>

\* ------------------------------------------------------------------ bounds
MaxStock == 2       \* stock of a product at most
MaxLineQty == 2     \* quantity of a cart line at most (and at least -1)
MaxTx == 2          \* checkouts that get past validation at most

\* ------------------------------------------------------------------ inputs
\* Unit prices in cents of the products registered, in registration order
\* (the prices of Coffee and Mineral Water in create_demo_store): the catalog
\* holds at most these.
Prices == <<250, 100>>

\* quantity arguments: positive, zero and negative
Quantities == -2 .. 2

\* quantities a cart line is let to reach
LineQuantities == -1 .. MaxLineQty

\* discount arguments: three valid ones and two outside [0, 100]
Discounts == {0, 10, 100, -10, 110}

\* product id arguments: the registered ids and one that is not registered
ProductIds == 1 .. (Len(Prices) + 1)

\* ---------------------------------------------------------------- results
\* What a call returns: Ok, or the exception it raises (by its message)
Ok == "ok"
ErrPrice == "ValueError: Price cannot be negative"
ErrStock == "ValueError: Stock cannot be negative"
ErrQuantity == "ValueError: Quantity must be at least 1"
ErrInsufficientStock == "ValueError: Insufficient stock"
ErrNotInCart == "ValueError: Product id not found in cart"
ErrDiscount == "ValueError: Discount must be between 0 and 100"
ErrNotFound == "ProductNotFoundError: No product with id"
ErrRestockQuantity == "ValueError: Restock quantity must be positive"
ErrReduceQuantity == "ValueError: Quantity must be positive"
ErrCannotReduce == "ValueError: Cannot reduce stock"
ErrEmptyCart == "ValueError: Cannot checkout: the cart is empty"
ErrInsufficientPayment == "ValueError: Insufficient payment"

\* ------------------------------------------------------------- arithmetic
\* TAX_RATE = 8.5 (percent), held in tenths of a percent
TAX_RATE_X10 == 85

\* round(x, 2) for x = n / d cents, d > 0: the nearest cent; a tie goes away
\* from zero when up, towards zero otherwise (round() is odd: round(-x) =
\* -round(x)).
RoundAbs(n, d, up) ==
    LET q == n \div d
        r == n % d
    IN  IF 2 * r > d THEN q + 1
        ELSE IF 2 * r < d THEN q
        ELSE IF up THEN q + 1 ELSE q

Round2(n, d, up) ==
    IF n >= 0 THEN RoundAbs(n, d, up) ELSE -RoundAbs(-n, d, up)

Abs(n) == IF n >= 0 THEN n ELSE -n

\* c * 8.5 / 100 is a tie when c (cents) is an odd multiple of 100.  These are
\* the ones below 6000 at which the double nearest to it lies above the tie,
\* so that round(..., 2) goes up: round(1.00 * 8.5 / 100, 2) = 0.09 but
\* round(5.00 * 8.5 / 100, 2) = 0.42.
TaxTieUp == {100, 300, 900, 1100, 1700, 2300, 3300, 3500, 3700, 4500, 4700, 4900}

\* CartItem.subtotal of a line
ItemSubtotal(item) == Round2(products[item.id].price * item.quantity, 1, FALSE)

RECURSIVE SumSubtotals(_)
SumSubtotals(its) ==
    IF its = <<>> THEN 0
    ELSE ItemSubtotal(Head(its)) + SumSubtotals(Tail(its))

\* Cart.subtotal
Subtotal(its) == Round2(SumSubtotals(its), 1, FALSE)

\* Cart.discount_amount; with prices that are multiples of 0.50 and the
\* discounts of Discounts, subtotal * percent / 100 is never a tie
DiscountAmount(its, pct) == Round2(Subtotal(its) * pct, 100, FALSE)

\* Cart.total_before_tax
TotalBeforeTax(its, pct) ==
    Round2(Subtotal(its) - DiscountAmount(its, pct), 1, FALSE)

\* TaxAmount taken on the subtotal: the discount does not lower the tax
TaxAmountOnSubtotal(its, pct) ==
    LET st == Subtotal(its)
    IN  Round2(st * TAX_RATE_X10, 1000, Abs(st) \in TaxTieUp)

\* Cart.tax_amount
TaxAmount(its, pct) ==
    LET tbt == TotalBeforeTax(its, pct)
    IN  Round2(tbt * TAX_RATE_X10, 1000, Abs(tbt) \in TaxTieUp)

\* Cart.total
Total(its, pct) ==
    Round2(TotalBeforeTax(its, pct) + TaxAmount(its, pct), 1, FALSE)

\* Cart.is_empty
IsEmpty(its) == Len(its) = 0

\* Product.is_available
IsAvailable(pid, quantity) == products[pid].stock >= quantity

\* Cart.find_item: the index of the first line of product_id, 0 for None
FindItem(its, product_id) ==
    IF \E i \in 1 .. Len(its) : its[i].id = product_id
    THEN CHOOSE i \in 1 .. Len(its) :
            /\ its[i].id = product_id
            /\ \A j \in 1 .. (i - 1) : its[j].id # product_id
    ELSE 0

\* list.remove(item): the sequence without its i-th element
RemoveAt(its, i) ==
    [j \in 1 .. (Len(its) - 1) |-> IF j < i THEN its[j] ELSE its[j + 1]]

\* no call
NoCall == [op |-> "none", args |-> <<>>, result |-> Ok, lines |-> 0]

\* what a later call keeps of the call before it: when that was an
\* add_to_cart or a checkout that returned, its name, its first argument (the
\* product id, the payment) and the number of cart lines before it; nothing
\* otherwise
Remembered(call) ==
    IF call.result = Ok /\ call.op \in {"add_to_cart", "checkout"}
    THEN [op |-> call.op, args |-> <<call.args[1]>>, result |-> call.result,
          lines |-> call.lines]
    ELSE NoCall

\* the record of a call: lines is the number of cart lines before the call,
\* prev the call before it
Called(op, args, result) ==
    [op |-> op, args |-> args, result |-> result, lines |-> Len(items),
     prev |-> Remembered(last)]

\* ------------------------------------------------------------------- Init
\* Store() and POSSystem(store)
Init ==
    /\ products = <<>>
    /\ next_id = 1
    /\ items = <<>>
    /\ discount_percent = 0
    /\ transaction_counter = 0
    /\ last_receipt = <<>>
    /\ receipts_produced = 0
    /\ receipts = <<>>
    /\ last = [op |-> "init", args |-> <<>>, result |-> Ok, lines |-> 0,
               prev |-> NoCall]

\* ------------------------------------------------------------------ Store
Registered(prods, product_id) == product_id \in 1 .. Len(prods)

\* Product.__post_init__: the error it raises, or Ok
ProductPostInit(price, stock) ==
    IF price < 0 THEN ErrPrice
    ELSE IF stock < 0 THEN ErrStock
    ELSE Ok

\* Store._products with product stored under product_id
Stored(prods, product_id, product) ==
    [p \in (DOMAIN prods) \cup {product_id} |->
        IF p = product_id THEN product ELSE prods[p]]

\* AddProduct that leaves _next_id as it is: the next product gets the same id
AddProductSameId(price, stock) ==
    /\ next_id <= Len(Prices)
    /\ LET result == ProductPostInit(price, stock)
       IN  /\ IF result = Ok
              THEN /\ products' = Stored(products, next_id,
                                         [price |-> price, stock |-> stock])
                   /\ next_id' = next_id
              ELSE UNCHANGED <<products, next_id>>
           /\ last' = Called("add_product", <<price, stock>>, result)
    /\ UNCHANGED <<items, discount_percent, transaction_counter, last_receipt,
                   receipts_produced, receipts>>

\* Store.add_product(name, price, category, stock)
AddProduct(price, stock) ==
    /\ next_id <= Len(Prices)
    /\ LET result == ProductPostInit(price, stock)
       IN  /\ IF result = Ok
              THEN /\ products' = Stored(products, next_id,
                                         [price |-> price, stock |-> stock])
                   /\ next_id' = next_id + 1
              ELSE UNCHANGED <<products, next_id>>
           /\ last' = Called("add_product", <<price, stock>>, result)
    /\ UNCHANGED <<items, discount_percent, transaction_counter, last_receipt,
                   receipts_produced, receipts>>

\* Store.restock: the catalog after the call and what the call returned
StoreRestock(prods, product_id, quantity) ==
    IF quantity <= 0
    THEN [products |-> prods, result |-> ErrRestockQuantity]
    ELSE IF ~Registered(prods, product_id)
    THEN [products |-> prods, result |-> ErrNotFound]
    ELSE [products |-> [prods EXCEPT ![product_id].stock = @ + quantity],
          result |-> Ok]

Restock(product_id, quantity) ==
    LET r == StoreRestock(products, product_id, quantity)
    IN  /\ \A p \in 1 .. Len(r.products) : r.products[p].stock <= MaxStock
        /\ products' = r.products
        /\ last' = Called("restock", <<product_id, quantity>>, r.result)
        /\ UNCHANGED <<next_id, items, discount_percent, transaction_counter,
                       last_receipt, receipts_produced, receipts>>

\* StoreReduceStock that does not compare the quantity with the stock
StoreReduceStockUnchecked(prods, product_id, quantity) ==
    IF quantity <= 0
    THEN [products |-> prods, result |-> ErrReduceQuantity]
    ELSE IF ~Registered(prods, product_id)
    THEN [products |-> prods, result |-> ErrNotFound]
    ELSE [products |-> [prods EXCEPT ![product_id].stock = @ - quantity],
          result |-> Ok]

\* Store.reduce_stock: the catalog after the call and what the call returned
StoreReduceStock(prods, product_id, quantity) ==
    IF quantity <= 0
    THEN [products |-> prods, result |-> ErrReduceQuantity]
    ELSE IF ~Registered(prods, product_id)
    THEN [products |-> prods, result |-> ErrNotFound]
    ELSE IF prods[product_id].stock < quantity
    THEN [products |-> prods, result |-> ErrCannotReduce]
    ELSE [products |-> [prods EXCEPT ![product_id].stock = @ - quantity],
          result |-> Ok]

ReduceStock(product_id, quantity) ==
    LET r == StoreReduceStock(products, product_id, quantity)
    IN  /\ products' = r.products
        /\ last' = Called("reduce_stock", <<product_id, quantity>>, r.result)
        /\ UNCHANGED <<next_id, items, discount_percent, transaction_counter,
                       last_receipt, receipts_produced, receipts>>

\* ------------------------------------------------------------------- Cart
\* CartAdd that puts the line it adds to at the end of the cart
CartAddMovesLine(its, product_id, quantity) ==
    IF ~IsAvailable(product_id, quantity)
    THEN [items |-> its, result |-> ErrInsufficientStock]
    ELSE LET existing == FindItem(its, product_id)
         IN  IF existing # 0
             THEN LET total_qty == its[existing].quantity + quantity
                  IN  IF ~IsAvailable(product_id, total_qty)
                      THEN [items |-> its, result |-> ErrInsufficientStock]
                      ELSE [items |-> Append(RemoveAt(its, existing),
                                             [id |-> product_id,
                                              quantity |-> total_qty]),
                            result |-> Ok]
             ELSE IF quantity <= 0
             THEN [items |-> its, result |-> ErrQuantity]
             ELSE [items |-> Append(its, [id |-> product_id, quantity |-> quantity]),
                   result |-> Ok]

\* CartAdd without the check of the summed quantity: only the increment is
\* checked against the stock
CartAddIncrementOnly(its, product_id, quantity) ==
    IF ~IsAvailable(product_id, quantity)
    THEN [items |-> its, result |-> ErrInsufficientStock]
    ELSE LET existing == FindItem(its, product_id)
         IN  IF existing # 0
             THEN [items |-> [its EXCEPT ![existing].quantity = @ + quantity],
                   result |-> Ok]
             ELSE IF quantity <= 0
             THEN [items |-> its, result |-> ErrQuantity]
             ELSE [items |-> Append(its, [id |-> product_id, quantity |-> quantity]),
                   result |-> Ok]

\* CartAdd that writes the summed quantity to the line before checking it
CartAddCommitFirst(its, product_id, quantity) ==
    IF ~IsAvailable(product_id, quantity)
    THEN [items |-> its, result |-> ErrInsufficientStock]
    ELSE LET existing == FindItem(its, product_id)
         IN  IF existing # 0
             THEN LET total_qty == its[existing].quantity + quantity
                  IN  [items |-> [its EXCEPT ![existing].quantity = total_qty],
                       result |-> IF ~IsAvailable(product_id, total_qty)
                                  THEN ErrInsufficientStock ELSE Ok]
             ELSE IF quantity <= 0
             THEN [items |-> its, result |-> ErrQuantity]
             ELSE [items |-> Append(its, [id |-> product_id, quantity |-> quantity]),
                   result |-> Ok]

\* Cart.add(product, quantity): the lines after the call and what it returned
CartAdd(its, product_id, quantity) ==
    IF ~IsAvailable(product_id, quantity)
    THEN [items |-> its, result |-> ErrInsufficientStock]
    ELSE LET existing == FindItem(its, product_id)
         IN  IF existing # 0
             THEN LET total_qty == its[existing].quantity + quantity
                  IN  IF ~IsAvailable(product_id, total_qty)
                      THEN [items |-> its, result |-> ErrInsufficientStock]
                      ELSE [items |-> [its EXCEPT ![existing].quantity = total_qty],
                            result |-> Ok]
             \* CartItem.__post_init__ refuses quantity <= 0
             ELSE IF quantity <= 0
             THEN [items |-> its, result |-> ErrQuantity]
             ELSE [items |-> Append(its, [id |-> product_id, quantity |-> quantity]),
                   result |-> Ok]

\* CartRemove with a quantity of 1 for None: one unit is taken off the line
CartRemoveDefaultOne(its, product_id, quantity) ==
    LET item == FindItem(its, product_id)
        q == IF quantity = <<>> THEN 1 ELSE quantity[1]
    IN  IF item = 0
        THEN [items |-> its, result |-> ErrNotInCart]
        ELSE IF q >= its[item].quantity
        THEN [items |-> RemoveAt(its, item), result |-> Ok]
        ELSE [items |-> [its EXCEPT ![item].quantity = @ - q],
              result |-> Ok]

\* CartRemove with > for >=: removing exactly the line's quantity keeps the line
CartRemoveStrict(its, product_id, quantity) ==
    LET item == FindItem(its, product_id)
    IN  IF item = 0
        THEN [items |-> its, result |-> ErrNotInCart]
        ELSE IF quantity = <<>> \/ quantity[1] > its[item].quantity
        THEN [items |-> RemoveAt(its, item), result |-> Ok]
        ELSE [items |-> [its EXCEPT ![item].quantity = @ - quantity[1]],
              result |-> Ok]

\* Cart.remove(product_id, quantity): quantity is <<>> for None, <<q>> for q
CartRemove(its, product_id, quantity) ==
    LET item == FindItem(its, product_id)
    IN  IF item = 0
        THEN [items |-> its, result |-> ErrNotInCart]
        ELSE IF quantity = <<>> \/ quantity[1] >= its[item].quantity
        THEN [items |-> RemoveAt(its, item), result |-> Ok]
        ELSE [items |-> [its EXCEPT ![item].quantity = @ - quantity[1]],
              result |-> Ok]

\* CartApplyDiscount without the upper limit: only percent < 0 is refused
CartApplyDiscountNoUpperLimit(pct, percent) ==
    IF ~(0 <= percent)
    THEN [discount_percent |-> pct,
          result |-> ErrDiscount]
    ELSE [discount_percent |-> percent, result |-> Ok]

\* Cart.apply_discount(percent): the discount after the call and what it returned
CartApplyDiscount(pct, percent) ==
    IF ~(0 <= percent /\ percent <= 100)
    THEN [discount_percent |-> pct,
          result |-> ErrDiscount]
    ELSE [discount_percent |-> percent, result |-> Ok]

\* CartClear that does nothing: the cart is left as it is
CartClearForgotten == [items |-> items, discount_percent |-> discount_percent]

\* CartClear that resets the discount and keeps the lines
CartClearKeepsLines == [items |-> items, discount_percent |-> 0]

\* Cart.clear(): the lines and the discount after the call
CartClear == [items |-> <<>>, discount_percent |-> 0]

\* the product ids of the lines of its
Ids(its) == {its[i].id : i \in 1 .. Len(its)}

\* The Receipt objects after a cart call that left the cart with the lines
\* its.  A CartItem is changed in place (Cart.add, Cart.remove), and a receipt
\* whose cart_snapshot holds that CartItem shows the new quantity; a CartItem
\* taken out of the cart's list is out of the cart's reach for good.
Reflected(rs, its) ==
    [k \in 1 .. Len(rs) |->
        LET live == rs[k].live \cap Ids(its)
            snapshot == rs[k].receipt.cart_snapshot
        IN  [receipt |->
                [rs[k].receipt EXCEPT !.cart_snapshot =
                    [i \in 1 .. Len(snapshot) |->
                        IF snapshot[i].id \in live
                        THEN its[FindItem(its, snapshot[i].id)]
                        ELSE snapshot[i]]],
             live |-> live]]

\* POSSystem._last_receipt refers to the Receipt returned last
StoredReceipt(rs) == IF rs = <<>> THEN <<>> ELSE <<rs[Len(rs)].receipt>>

\* every line of its is within the bound on line quantities
LinesBounded(its) ==
    \A i \in 1 .. Len(its) :
        its[i].quantity \in LineQuantities

\* -------------------------------------------------------------- POSSystem
\* OpenTransaction that forgets the last receipt
OpenTransactionForgetsReceipt ==
    /\ items' = CartClear.items
    /\ discount_percent' = CartClear.discount_percent
    /\ receipts' = <<>>
    /\ last_receipt' = <<>>
    /\ last' = Called("open_transaction", <<>>, Ok)
    /\ UNCHANGED <<products, next_id, transaction_counter, receipts_produced>>

\* OpenTransaction that starts the count of transactions again
OpenTransactionResetsCount ==
    /\ items' = CartClear.items
    /\ discount_percent' = CartClear.discount_percent
    /\ transaction_counter' = 0
    /\ receipts' = Reflected(receipts, items')
    /\ last_receipt' = StoredReceipt(receipts')
    /\ last' = Called("open_transaction", <<>>, Ok)
    /\ UNCHANGED <<products, next_id, receipts_produced>>

\* POSSystem.open_transaction: Cart.clear
OpenTransaction ==
    /\ items' = CartClear.items
    /\ discount_percent' = CartClear.discount_percent
    /\ receipts' = Reflected(receipts, items')
    /\ last_receipt' = StoredReceipt(receipts')
    /\ last' = Called("open_transaction", <<>>, Ok)
    /\ UNCHANGED <<products, next_id, transaction_counter, receipts_produced>>

\* POSSystem.add_to_cart(product_id, quantity)
AddToCart(product_id, quantity) ==
    /\ IF ~Registered(products, product_id)
       THEN /\ last' = Called("add_to_cart", <<product_id, quantity>>,
                              ErrNotFound)
            /\ UNCHANGED items
       ELSE LET r == CartAdd(items, product_id, quantity)
            IN  /\ LinesBounded(r.items)
                /\ items' = r.items
                /\ last' = Called("add_to_cart", <<product_id, quantity>>, r.result)
    /\ receipts' = Reflected(receipts, items')
    /\ last_receipt' = StoredReceipt(receipts')
    /\ UNCHANGED <<products, next_id, discount_percent, transaction_counter,
                   receipts_produced>>

\* POSSystem.remove_from_cart(product_id, quantity)
RemoveFromCart(product_id, quantity) ==
    LET r == CartRemove(items, product_id, quantity)
    IN  /\ LinesBounded(r.items)
        /\ items' = r.items
        /\ receipts' = Reflected(receipts, items')
        /\ last_receipt' = StoredReceipt(receipts')
        /\ last' = Called("remove_from_cart", <<product_id>> \o quantity, r.result)
        /\ UNCHANGED <<products, next_id, discount_percent, transaction_counter,
                       receipts_produced>>

\* POSSystem.apply_discount(percent)
ApplyDiscount(percent) ==
    LET r == CartApplyDiscount(discount_percent, percent)
    IN  /\ discount_percent' = r.discount_percent
        /\ last' = Called("apply_discount", <<percent>>, r.result)
        /\ UNCHANGED <<products, next_id, items, transaction_counter, last_receipt,
                       receipts_produced, receipts>>

\* DeductStock that leaves the loop after the first line
DeductStockFirstLine(prods, its) ==
    IF its = <<>> THEN [products |-> prods, result |-> Ok]
    ELSE StoreReduceStock(prods, Head(its).id, Head(its).quantity)

\* the loop of checkout over the cart lines: Store.reduce_stock for each line
\* in order, stopping at the first one that raises
RECURSIVE DeductStock(_, _)
DeductStock(prods, its) ==
    IF its = <<>> THEN [products |-> prods, result |-> Ok]
    ELSE LET r == StoreReduceStock(prods, Head(its).id, Head(its).quantity)
         IN  IF r.result # Ok THEN r
             ELSE DeductStock(r.products, Tail(its))

\* Receipt built after the cart was cleared: no lines and no amounts
ReceiptAfterClear(tid, its, pct, payment) ==
    [transaction_id |-> tid,
     cart_snapshot |-> <<>>,
     subtotal |-> 0,
     discount_percent |-> 0,
     discount_amount |-> 0,
     tax_rate |-> TAX_RATE_X10,
     tax_amount |-> 0,
     total |-> 0,
     payment |-> Round2(payment, 1, FALSE),
     change |-> Round2(payment, 1, FALSE)]

\* Receipt(...) as checkout builds it (the timestamp is left out)
Receipt(tid, its, pct, payment) ==
    [transaction_id |-> tid,
     cart_snapshot |-> its,
     subtotal |-> Subtotal(its),
     discount_percent |-> pct,
     discount_amount |-> DiscountAmount(its, pct),
     tax_rate |-> TAX_RATE_X10,
     tax_amount |-> TaxAmount(its, pct),
     total |-> Total(its, pct),
     payment |-> Round2(payment, 1, FALSE),
     change |-> Round2(payment - Total(its, pct), 1, FALSE)]

\* PaymentRefused with <= for <: a payment equal to the total is refused
PaymentRefusedAtTotal(payment, total) == payment <= total

\* the payment check of checkout: TRUE when the payment is refused
PaymentRefused(payment, total) == payment < total

\* CheckoutValidation with the two checks in the other order
CheckoutValidationPaymentFirst(its, pct, payment) ==
    IF payment < Total(its, pct) THEN ErrInsufficientPayment
    ELSE IF IsEmpty(its) THEN ErrEmptyCart
    ELSE Ok

\* the two checks checkout makes before it changes anything
CheckoutValidation(its, pct, payment) ==
    IF IsEmpty(its) THEN ErrEmptyCart
    ELSE IF PaymentRefused(payment, Total(its, pct)) THEN ErrInsufficientPayment
    ELSE Ok

\* POSSystem.checkout(payment): every field it may write, and what it returned
CheckoutEffect(payment) ==
    LET valid == CheckoutValidation(items, discount_percent, payment)
        counter == transaction_counter + 1
        r == DeductStock(products, items)
    IN  IF valid # Ok
        THEN [products |-> products, items |-> items,
              discount_percent |-> discount_percent,
              transaction_counter |-> transaction_counter,
              last_receipt |-> last_receipt,
              result |-> valid]
        ELSE IF r.result # Ok
        \* reduce_stock raised part-way through the loop: the counter is
        \* incremented, the lines before it are deducted, the cart is kept
        THEN [products |-> r.products, items |-> items,
              discount_percent |-> discount_percent,
              transaction_counter |-> counter,
              last_receipt |-> last_receipt,
              result |-> r.result]
        ELSE [products |-> r.products, items |-> CartClear.items,
              discount_percent |-> CartClear.discount_percent,
              transaction_counter |-> counter,
              last_receipt |->
                  <<Receipt(counter, items, discount_percent, payment)>>,
              result |-> Ok]

\* kept: whether the caller still holds the receipts of the sales before
Checkout(payment, kept) ==
    LET r == CheckoutEffect(payment)
        held == IF kept THEN receipts ELSE <<>>
    IN  /\ r.transaction_counter <= MaxTx
        /\ products' = r.products
        /\ items' = r.items
        /\ discount_percent' = r.discount_percent
        /\ transaction_counter' = r.transaction_counter
        /\ receipts_produced' =
               IF r.result = Ok THEN receipts_produced + 1 ELSE receipts_produced
        \* list(self._cart.items) holds the CartItems the cart holds
        /\ receipts' =
               IF r.result = Ok
               THEN Reflected(Append(held, [receipt |-> r.last_receipt[1],
                                            live |-> Ids(items)]),
                              r.items)
               ELSE receipts
        /\ last_receipt' = StoredReceipt(receipts')
        /\ last' = Called("checkout", <<payment>>, r.result)
        /\ UNCHANGED next_id

\* payments offered at checkout: one cent short of the cart's total, and the
\* total exactly
Payments == {Total(items, discount_percent) - 1, Total(items, discount_percent)}

\* ------------------------------------------------------------------- Next
\* Catalog and cart calls with every kind of argument: valid and invalid
\* registrations, positive, zero and negative quantities, registered and
\* unregistered product ids, discounts inside and outside [0, 100]
CartCalls ==
    \/ \E stock \in -1 .. MaxStock, sign \in {1, -1} :
            AddProduct(sign * Prices[next_id], stock)
    \/ \E product_id \in ProductIds, quantity \in Quantities :
            Restock(product_id, quantity)
    \/ \E product_id \in ProductIds, quantity \in Quantities :
            ReduceStock(product_id, quantity)
    \/ OpenTransaction
    \/ \E product_id \in ProductIds, quantity \in Quantities :
            AddToCart(product_id, quantity)
    \/ \E product_id \in ProductIds, quantity \in Quantities :
            RemoveFromCart(product_id, <<quantity>>)
    \/ \E product_id \in ProductIds : RemoveFromCart(product_id, <<>>)
    \/ \E percent \in Discounts : ApplyDiscount(percent)

\* the catalog and the cart, no checkout
SpecCart == Init /\ [][CartCalls]_vars

\* arguments of a sale: the stock a product is registered with, the
\* quantities put into and taken out of the cart, the quantity moved in and
\* out of stock, the discounts, the product ids
SaleStocks == 0 .. 2
SaleQuantities == 1 .. 2
StockQuantities == {1}
SaleDiscounts == {0, 10}
SaleIds == 1 .. Len(Prices)

\* Sales: products are registered with their stock, the cart is filled and
\* changed, stock is taken out of the catalog directly, and the cart is
\* checked out (no restock: the stock registered is what there is to sell)
Next ==
    \/ \E stock \in SaleStocks : AddProduct(Prices[next_id], stock)
    \/ \E product_id \in SaleIds, quantity \in StockQuantities :
            ReduceStock(product_id, quantity)
    \/ OpenTransaction
    \/ \E product_id \in SaleIds, quantity \in SaleQuantities :
            AddToCart(product_id, quantity)
    \/ \E product_id \in SaleIds, quantity \in StockQuantities :
            RemoveFromCart(product_id, <<quantity>>)
    \/ \E product_id \in SaleIds : RemoveFromCart(product_id, <<>>)
    \/ \E percent \in SaleDiscounts : ApplyDiscount(percent)
    \/ \E payment \in Payments : Checkout(payment, FALSE)

Spec == Init /\ [][Next]_vars

\* Sales of one product one after the other, with the stock filled up in
\* between; the caller keeps every receipt
ShopCalls ==
    \/ \E stock \in StockQuantities :
            next_id = 1 /\ AddProduct(Prices[next_id], stock)
    \/ \E product_id \in SaleIds, quantity \in StockQuantities :
            Restock(product_id, quantity)
    \/ OpenTransaction
    \/ \E product_id \in SaleIds, quantity \in StockQuantities :
            AddToCart(product_id, quantity)
    \/ \E product_id \in SaleIds, quantity \in StockQuantities :
            RemoveFromCart(product_id, <<quantity>>)
    \/ \E product_id \in SaleIds : RemoveFromCart(product_id, <<>>)
    \/ \E percent \in SaleDiscounts : ApplyDiscount(percent)
    \/ \E payment \in Payments : Checkout(payment, TRUE)

SpecShop == Init /\ [][ShopCalls]_vars

\* quantities moved in and out of stock: negative, zero and positive
StockMoves == -1 .. 2

\* The stock of one product: registrations with valid and invalid prices and
\* stocks, restock and reduce_stock with positive, zero and negative
\* quantities on the registered id and on an unregistered one, and sales
StockCalls ==
    \/ \E stock \in -1 .. MaxStock, sign \in {1, -1} :
            next_id = 1 /\ AddProduct(sign * Prices[next_id], stock)
    \/ \E product_id \in SaleIds, quantity \in StockMoves :
            Restock(product_id, quantity)
    \/ \E product_id \in SaleIds, quantity \in StockMoves :
            ReduceStock(product_id, quantity)
    \/ OpenTransaction
    \/ \E product_id \in SaleIds, quantity \in SaleQuantities :
            AddToCart(product_id, quantity)
    \/ \E payment \in Payments : Checkout(payment, FALSE)

SpecStock == Init /\ [][StockCalls]_vars

\* One till on one product whose stock changes through restock and checkout
\* only (no direct reduce_stock); the cart calls take positive, zero and
\* negative quantities
TillCalls ==
    \/ \E stock \in SaleStocks :
            next_id = 1 /\ AddProduct(Prices[next_id], stock)
    \/ \E product_id \in SaleIds, quantity \in StockQuantities :
            Restock(product_id, quantity)
    \/ OpenTransaction
    \/ \E product_id \in SaleIds, quantity \in Quantities :
            AddToCart(product_id, quantity)
    \/ \E product_id \in SaleIds, quantity \in Quantities :
            RemoveFromCart(product_id, <<quantity>>)
    \/ \E product_id \in SaleIds : RemoveFromCart(product_id, <<>>)
    \/ \E percent \in SaleDiscounts : ApplyDiscount(percent)
    \/ \E payment \in Payments : Checkout(payment, FALSE)

SpecTill == Init /\ [][TillCalls]_vars

\* Sample catalogs: Coffee (2.50, 50 in stock) and Mineral Water (1.00, 100 in
\* stock) of create_demo_store, and the single product of 100.00 with 20 in
\* stock that the cart tests are made on
SampleCatalogs ==
    {<<[price |-> 250, stock |-> 50], [price |-> 100, stock |-> 100]>>,
     <<[price |-> 10000, stock |-> 20]>>}

\* payments offered for the sample sales: 5.00 and 10.00
SamplePayments == {500, 1000}

\* discounts given on the sample sales
SampleDiscounts == {0, 10, 100}

\* Store() filled with one of the sample catalogs, and POSSystem(store)
InitSample ==
    /\ products \in SampleCatalogs
    /\ next_id = Len(products) + 1
    /\ items = <<>>
    /\ discount_percent = 0
    /\ transaction_counter = 0
    /\ last_receipt = <<>>
    /\ receipts_produced = 0
    /\ receipts = <<>>
    /\ last = [op |-> "init", args |-> <<>>, result |-> Ok, lines |-> 0,
               prev |-> NoCall]

\* The first sale from a sample catalog, paid with more than the total or
\* with less, and the cart calls before and after it
SampleCalls ==
    \/ OpenTransaction
    \/ \E product_id \in SaleIds, quantity \in SaleQuantities :
            AddToCart(product_id, quantity)
    \/ \E product_id \in SaleIds, quantity \in StockQuantities :
            RemoveFromCart(product_id, <<quantity>>)
    \/ \E product_id \in SaleIds : RemoveFromCart(product_id, <<>>)
    \/ \E percent \in SampleDiscounts : ApplyDiscount(percent)
    \/ \E payment \in SamplePayments :
            transaction_counter = 0 /\ Checkout(payment, FALSE)

SpecSample == InitSample /\ [][SampleCalls]_vars

\* ----------------------------------------------------------------- claims
\* the quantity of product_id's line in its, 0 when it has none
LineQuantity(its, product_id) ==
    IF FindItem(its, product_id) = 0 THEN 0
    ELSE its[FindItem(its, product_id)].quantity

\* the indices of the lines of product_id in its
LinesOf(its, product_id) == {i \in 1 .. Len(its) : its[i].id = product_id}

\* C1: checkout(payment) on a non-empty cart is rejected for insufficient
\* payment exactly when payment < cart.total (a payment equal to the total is
\* not), and a checkout rejected this way changes no stock, no cart line, not
\* the discount, not transaction_count() and not last_receipt.
C1_InsufficientPayment ==
    [][(last'.op = "checkout" /\ ~IsEmpty(items)) =>
          LET refused == last'.result = ErrInsufficientPayment
          IN  /\ refused <=> (last'.args[1] < Total(items, discount_percent))
              /\ refused => UNCHANGED <<products, items, discount_percent,
                                        transaction_counter, last_receipt>>]_vars

\* a checkout of a non-empty cart was just refused for its payment, after an
\* earlier checkout had gone through
C1_Refused ==
    /\ last.op = "checkout"
    /\ last.result = ErrInsufficientPayment
    /\ ~IsEmpty(items)
    /\ last_receipt # <<>>

\* C2: a checkout either fully succeeds (receipt stored, every line's stock
\* reduced, cart cleared, counter incremented by one) or fails and leaves the
\* stock, the cart lines, the discount, transaction_count() and last_receipt
\* as they were.
C2_AllOrNothing ==
    [][last'.op = "checkout" =>
          \/ /\ last'.result = Ok
             /\ last_receipt' # <<>>
             /\ \A p \in 1 .. Len(products) :
                   products'[p].stock = products[p].stock - LineQuantity(items, p)
             /\ items' = <<>>
             /\ transaction_counter' = transaction_counter + 1
          \/ /\ last'.result # Ok
             /\ UNCHANGED <<products, items, discount_percent,
                            transaction_counter, last_receipt>>]_vars

\* C3: a successful checkout reduces the stock of each product that has a cart
\* line by that line's quantity and leaves the stock of every other product
\* unchanged.
C3_StockDeducted ==
    [][(last'.op = "checkout" /\ last'.result = Ok) =>
          /\ Len(products') = Len(products)
          /\ \A p \in 1 .. Len(products) :
                /\ products'[p].price = products[p].price
                /\ products'[p].stock =
                      IF LinesOf(items, p) = {} THEN products[p].stock
                      ELSE products[p].stock - LineQuantity(items, p)]_vars

\* a checkout just went through that sold two lines
C3_SoldTwoLines ==
    /\ last.op = "checkout"
    /\ last.result = Ok
    /\ Len(last_receipt[1].cart_snapshot) = 2

\* C4: the n-th receipt checkout produces carries transaction id n,
\* transaction_count() equals the number of receipts produced so far, and
\* open_transaction does not change the counter.
C4_SequentialIds ==
    [][/\ transaction_counter' = receipts_produced'
       /\ (last'.op = "checkout" /\ last'.result = Ok) =>
             last_receipt'[1].transaction_id = receipts_produced'
       /\ last'.op = "open_transaction" =>
             transaction_counter' = transaction_counter]_vars

\* C5: Cart.add checks the stock against the summed request.  Adding q >= 1 of
\* a product with no line, q within the stock, makes one line of quantity q;
\* adding q2 >= 1 to a line of q1 >= 1 (each within the stock) leaves exactly
\* one line, of quantity q1 + q2, when q1 + q2 <= stock, and is refused for
\* insufficient stock, the line staying at q1, when q1 + q2 > stock.
C5_CumulativeAdd ==
    [][(/\ last'.op = "add_to_cart"
        /\ Registered(products, last'.args[1])
        /\ last'.args[2] >= 1
        /\ last'.args[2] <= products[last'.args[1]].stock) =>
          LET product_id == last'.args[1]
              q2 == last'.args[2]
              q1 == LineQuantity(items, product_id)
              stock == products[product_id].stock
          IN  IF LinesOf(items, product_id) = {}
              THEN /\ last'.result = Ok
                   /\ items' = Append(items, [id |-> product_id, quantity |-> q2])
              ELSE (q1 >= 1 /\ q1 <= stock) =>
                     IF q1 + q2 <= stock
                     THEN /\ last'.result = Ok
                          /\ Cardinality(LinesOf(items', product_id)) = 1
                          /\ LineQuantity(items', product_id) = q1 + q2
                     ELSE /\ last'.result = ErrInsufficientStock
                          /\ items' = items]_vars

\* an add was just refused though the line and the increment each fit the stock
C5_SumRefused ==
    /\ last.op = "add_to_cart"
    /\ last.result = ErrInsufficientStock
    /\ Registered(products, last.args[1])
    /\ last.args[2] >= 1
    /\ last.args[2] <= products[last.args[1]].stock
    /\ LineQuantity(items, last.args[1]) >= 1
    /\ LineQuantity(items, last.args[1]) <= products[last.args[1]].stock

\* C6: an add_to_cart that fails because the product id is not in the catalog
\* or because the requested or summed quantity exceeds the stock leaves the
\* cart lines, the discount and every product's stock unchanged.
C6_FailedAddChangesNothing ==
    [][(/\ last'.op = "add_to_cart"
        /\ last'.result \in {ErrNotFound, ErrInsufficientStock}) =>
          UNCHANGED <<items, discount_percent, products>>]_vars

\* an add of more than the stock was just refused: the cart is still empty
\* and the stock is what it was
C6_RefusedOnEmptyCart ==
    /\ last.op = "add_to_cart"
    /\ last.result = ErrInsufficientStock
    /\ items = <<>>
    /\ products[last.args[1]].stock = 1
    /\ last.args[2] = 2

\* C7: after any Cart.add and Cart.remove calls, with any integer quantities,
\* every line in the cart has quantity >= 1.
C7_LineQuantityPositive ==
    \A i \in 1 .. Len(items) : items[i].quantity >= 1

\* C8: Cart.remove(product_id, quantity) with quantity <= 0 on an existing
\* line fails and leaves the cart unchanged.
C8_RemoveNonPositiveFails ==
    [][(/\ last'.op = "remove_from_cart"
        /\ Len(last'.args) = 2
        /\ last'.args[2] <= 0
        /\ LinesOf(items, last'.args[1]) # {}) =>
          /\ last'.result # Ok
          /\ items' = items]_vars

\* C9: Cart.add(product, quantity) with quantity <= 0 fails and leaves the
\* cart unchanged, whether or not the product has a line.
C9_AddNonPositiveFails ==
    [][(/\ last'.op = "add_to_cart"
        /\ Registered(products, last'.args[1])
        /\ last'.args[2] <= 0) =>
          /\ last'.result # Ok
          /\ items' = items]_vars

\* C10: checkout of a cart with no lines fails with the empty-cart error
\* whatever the payment, and leaves every stock, transaction_count() and
\* last_receipt unchanged.
C10_EmptyCartCheckout ==
    [][(last'.op = "checkout" /\ IsEmpty(items)) =>
          /\ last'.result = ErrEmptyCart
          /\ UNCHANGED <<products, transaction_counter, last_receipt>>]_vars

\* a checkout of an empty cart was just refused, with products in stock and a
\* payment that covers the total of 0
C10_RefusedEmpty ==
    /\ last.op = "checkout"
    /\ last.result = ErrEmptyCart
    /\ last.args[1] = 0
    /\ \E p \in 1 .. Len(products) : products[p].stock > 0

\* C11: a successful checkout leaves the cart with no lines and discount 0,
\* and a checkout issued right after it, or after it and an open_transaction,
\* fails with the empty-cart error and changes no stock.
C11_SecondCheckoutFails ==
    [][/\ (last'.op = "checkout" /\ last'.result = Ok) =>
             (items' = <<>> /\ discount_percent' = 0)
       /\ (/\ last'.op = "checkout"
           /\ \/ (last.op = "checkout" /\ last.result = Ok)
              \/ (last.op = "open_transaction" /\ last.prev.op = "checkout")) =>
             (last'.result = ErrEmptyCart /\ products' = products)]_vars

\* a checkout was just refused for an empty cart right after a checkout that
\* sold a discounted cart, with stock left to sell
C11_SecondRefused ==
    /\ last.op = "checkout"
    /\ last.result = ErrEmptyCart
    /\ last.prev.op = "checkout"
    /\ last_receipt # <<>>
    /\ last_receipt[1].discount_percent = 10
    /\ \E p \in 1 .. Len(products) : products[p].stock > 0

\* C12: Cart.remove(product_id, q) fails and leaves the cart unchanged when
\* product_id has no line; deletes exactly that line when q is omitted or
\* q >= the line's quantity; lowers that line's quantity by exactly q when
\* 0 < q < the line's quantity; in every case the other lines keep their
\* quantities and order and the discount is unchanged.
C12_Remove ==
    [][last'.op = "remove_from_cart" =>
          LET product_id == last'.args[1]
              omitted == Len(last'.args) = 1
          IN  /\ discount_percent' = discount_percent
              /\ IF LinesOf(items, product_id) = {}
                 THEN last'.result = ErrNotInCart /\ items' = items
                 ELSE LET i == CHOOSE k \in LinesOf(items, product_id) : TRUE
                      IN  IF omitted \/ last'.args[2] >= items[i].quantity
                          THEN /\ last'.result = Ok
                               /\ items' = SubSeq(items, 1, i - 1) \o
                                           SubSeq(items, i + 1, Len(items))
                          ELSE last'.args[2] > 0 =>
                               /\ last'.result = Ok
                               /\ Len(items') = Len(items)
                               /\ items'[i].id = product_id
                               /\ items'[i].quantity =
                                      items[i].quantity - last'.args[2]
                               /\ \A j \in 1 .. Len(items) :
                                      j # i => items'[j] = items[j]]_vars

\* one unit was just taken off the first of two lines, which keeps the rest
C12_PartlyRemoved ==
    /\ last.op = "remove_from_cart"
    /\ last.result = Ok
    /\ last.lines = 2
    /\ Len(items) = 2
    /\ last.args = <<items[1].id, 1>>
    /\ discount_percent = 10

\* C13: the cart's discount is within [0, 100] in every reachable state;
\* apply_discount(p) with 0 <= p <= 100 sets it to exactly p whatever it was
\* before, and apply_discount(p) with p outside [0, 100] fails and leaves it
\* as it was.
C13_DiscountInRange ==
    /\ [](0 <= discount_percent /\ discount_percent <= 100)
    /\ [][last'.op = "apply_discount" =>
             IF 0 <= last'.args[1] /\ last'.args[1] <= 100
             THEN last'.result = Ok /\ discount_percent' = last'.args[1]
             ELSE /\ last'.result = ErrDiscount
                  /\ discount_percent' = discount_percent]_vars

\* a discount of 110 was just refused and the discount of 10 set before it
\* is still there
C13_RefusedKeepsDiscount ==
    /\ last.op = "apply_discount"
    /\ last.args = <<110>>
    /\ last.result = ErrDiscount
    /\ discount_percent = 10

\* C14: in every cart state reached through add, remove, apply_discount and
\* clear, total >= total_before_tax and total_before_tax <= subtotal.
C14_TotalsOrdered ==
    /\ Total(items, discount_percent) >=
           TotalBeforeTax(items, discount_percent)
    /\ TotalBeforeTax(items, discount_percent) <= Subtotal(items)

\* C15: with product 1 at 2.50 and 50 in stock, add_to_cart(1, 2) on the
\* empty cart gives subtotal 5.00, tax_amount 0.43 and total 5.43;
\* checkout(10.00) then returns a receipt of total 5.43 and change 4.57 and
\* leaves the stock at 48 and transaction_count() at 1.
C15_CoffeeScenario ==
    [][(/\ products[1] = [price |-> 250, stock |-> 50]
        /\ transaction_counter = 0
        /\ discount_percent = 0) =>
          /\ (items = <<>> /\ last'.op = "add_to_cart" /\ last'.args = <<1, 2>>) =>
                /\ last'.result = Ok
                /\ Subtotal(items') = 500
                /\ TaxAmount(items', discount_percent') = 43
                /\ Total(items', discount_percent') = 543
          /\ (/\ items = <<[id |-> 1, quantity |-> 2]>>
              /\ last'.op = "checkout"
              /\ last'.args = <<1000>>) =>
                /\ last'.result = Ok
                /\ last_receipt'[1].total = 543
                /\ last_receipt'[1].change = 457
                /\ products'[1].stock = 48
                /\ transaction_counter' = 1]_vars

\* the price times the quantity of the i-th line of its, 0 when it has no
\* i-th line
LinePrice(its, i) ==
    IF i <= Len(its) THEN products[its[i].id].price * its[i].quantity ELSE 0

\* C16: the cart totals follow the discount-then-tax pipeline, each step
\* rounded to the cent: subtotal = the sum of price x quantity over the lines,
\* discount_amount = subtotal x discount% / 100, total_before_tax = subtotal -
\* discount_amount, tax_amount = total_before_tax x TAX_RATE / 100 (on the
\* discounted amount), total = total_before_tax + tax_amount; a 10% discount
\* on a subtotal of 100.00 gives 10.00, 90.00, 7.65 and 97.65.
C16_Pipeline ==
    LET subtotal == Subtotal(items)
        discount_amount == DiscountAmount(items, discount_percent)
        total_before_tax == TotalBeforeTax(items, discount_percent)
        tax_amount == TaxAmount(items, discount_percent)
        total == Total(items, discount_percent)
    IN  /\ Len(items) <= 2
        /\ subtotal = LinePrice(items, 1) + LinePrice(items, 2)
        /\ Abs(100 * discount_amount - subtotal * discount_percent) <= 50
        /\ total_before_tax = subtotal - discount_amount
        /\ Abs(1000 * tax_amount - total_before_tax * TAX_RATE_X10) <= 500
        /\ total = total_before_tax + tax_amount
        /\ (subtotal = 10000 /\ discount_percent = 10) =>
              /\ discount_amount = 1000
              /\ total_before_tax = 9000
              /\ tax_amount = 765
              /\ total = 9765

\* the cart holds a subtotal of 100.00 and a discount of 10%
C16_TenPercentOfHundred ==
    /\ Subtotal(items) = 10000
    /\ discount_percent = 10
    /\ Total(items, discount_percent) = 9765

\* C17: the receipt a successful checkout returns is a snapshot of the cart
\* as it was right before the call: its lines (product and quantity, in
\* order), subtotal, discount percent, discount amount, tax amount and total
\* are the cart's at that moment, its change is payment - total, and its
\* change is never negative.
C17_ReceiptSnapshot ==
    [][(last'.op = "checkout" /\ last'.result = Ok) =>
          LET receipt == last_receipt'[1]
          IN  /\ receipt.cart_snapshot = items
              /\ receipt.subtotal = Subtotal(items)
              /\ receipt.discount_percent = discount_percent
              /\ receipt.discount_amount =
                     DiscountAmount(items, discount_percent)
              /\ receipt.tax_amount = TaxAmount(items, discount_percent)
              /\ receipt.total = Total(items, discount_percent)
              /\ receipt.change = last'.args[1] - receipt.total
              /\ receipt.change >= 0]_vars

\* a discounted cart of two lines was just sold and change was given
C17_SoldWithChange ==
    /\ last.op = "checkout"
    /\ last.result = Ok
    /\ Len(last_receipt[1].cart_snapshot) = 2
    /\ last_receipt[1].discount_percent = 10
    /\ last_receipt[1].change > 0

\* C18: once a receipt has been created, no later call (add, remove,
\* discount, open_transaction, further checkouts, restock) changes its
\* transaction id, its lines (product and quantity) or its subtotal,
\* discount, tax, total, payment and change.
C18_ReceiptNeverChanges ==
    [][\A k \in 1 .. Len(receipts) :
          /\ Len(receipts') >= k
          /\ receipts'[k].receipt = receipts[k].receipt]_vars

\* after two sales the product of the first receipt was just put into the
\* cart again
C18_AddedAfterTwoSales ==
    /\ Len(receipts) = 2
    /\ last.op = "add_to_cart"
    /\ last.result = Ok
    /\ last.args[1] = receipts[1].receipt.cart_snapshot[1].id
    /\ \E p \in 1 .. Len(products) : products[p].stock = MaxStock

\* a remove with no quantity follows a successful add of the same product
RemoveFollowsAdd ==
    /\ last.op = "add_to_cart"
    /\ last.result = Ok
    /\ last'.op = "remove_from_cart"
    /\ last'.args = <<last.args[1]>>

\* C19: a successful Cart.add(product, q) followed by Cart.remove(product.id)
\* with no quantity restores the cart to the number of lines it had before
\* the add, for every cart state and every product.
C19_AddThenRemove ==
    [][RemoveFollowsAdd => Len(items') = last.lines]_vars

\* C19 as amended: for a product that has no line in the cart, a successful
\* Cart.add(product, q) followed by Cart.remove(product.id) with no quantity
\* restores the cart to the number of lines it had before the add.
C19_AddThenRemoveNewLine ==
    [][(RemoveFollowsAdd /\ Len(items) = last.lines + 1) =>
          (last'.result = Ok /\ Len(items') = last.lines)]_vars

\* a product was added as a second line and its line was just removed again:
\* one line is left
C19_NewLineRemoved ==
    /\ last.op = "remove_from_cart"
    /\ Len(last.args) = 1
    /\ last.result = Ok
    /\ last.prev.op = "add_to_cart"
    /\ last.prev.args = last.args
    /\ last.prev.lines = 1
    /\ last.lines = 2
    /\ Len(items) = 1

\* C20: every successful register (price >= 0, stock >= 0) returns a product
\* whose id is unique and greater than every id assigned before; a register
\* with a negative price or a negative stock fails, stores no product and
\* leaves the catalog as it was.
C20_FreshIds ==
    [][last'.op = "add_product" =>
          IF last'.args[1] >= 0 /\ last'.args[2] >= 0
          THEN /\ last'.result = Ok
               /\ \E id \in (DOMAIN products') \ (DOMAIN products) :
                     /\ DOMAIN products' = (DOMAIN products) \cup {id}
                     /\ \A p \in DOMAIN products : id > p
                     /\ products'[id] =
                           [price |-> last'.args[1], stock |-> last'.args[2]]
               /\ \A p \in DOMAIN products : products'[p] = products[p]
          ELSE /\ last'.result \in {ErrPrice, ErrStock}
               /\ products' = products
               /\ next_id' = next_id]_vars

\* a second product was just registered, with another stock than the first
C20_SecondRegistered ==
    /\ last.op = "add_product"
    /\ last.result = Ok
    /\ DOMAIN products = {1, 2}
    /\ products[1].stock # products[2].stock

\* C22: open_transaction succeeds from every state, leaves the cart with no
\* lines and discount 0, and changes no product's stock, not
\* transaction_count() and not last_receipt.
C22_OpenTransaction ==
    [][last'.op = "open_transaction" =>
          /\ last'.result = Ok
          /\ items' = <<>>
          /\ discount_percent' = 0
          /\ UNCHANGED <<products, transaction_counter, last_receipt>>]_vars

\* a cart of two lines was just discarded by open_transaction, after a sale
C22_CartDiscarded ==
    /\ last.op = "open_transaction"
    /\ last.lines = 2
    /\ transaction_counter > 0
    /\ last_receipt # <<>>

\* the product ids of the lines of its, in the order of the lines
LineIds(its) == [i \in 1 .. Len(its) |-> its[i].id]

\* C23: the cart holds at most one line per product id, and the lines are in
\* the order in which their products were first added: adding more of a
\* product that has a line does not move the line, a product with no line
\* (never added, or removed entirely before) goes to the end, and no other
\* call changes the order.
C23_OneLinePerProductInOrder ==
    [][/\ \A i, j \in 1 .. Len(items') :
             i # j => items'[i].id # items'[j].id
       /\ IF last'.op = "add_to_cart" /\ last'.result = Ok
          THEN LineIds(items') =
                  IF LinesOf(items, last'.args[1]) # {}
                  THEN LineIds(items)
                  ELSE Append(LineIds(items), last'.args[1])
          ELSE IF last'.op = "remove_from_cart" /\ last'.result = Ok
          THEN \/ LineIds(items') = LineIds(items)
               \/ LineIds(items') =
                     SelectSeq(LineIds(items), LAMBDA id : id # last'.args[1])
          ELSE IF last'.op = "open_transaction"
          THEN items' = <<>>
          ELSE LineIds(items') = LineIds(items)]_vars

\* more of the product of the first of two lines was just added: it is still
\* the first line
C23_AddedToFirstLine ==
    /\ last.op = "add_to_cart"
    /\ last.result = Ok
    /\ last.lines = 2
    /\ Len(items) = 2
    /\ last.args[1] = items[1].id
    /\ last.args[2] > 0

\* C25: last_receipt is absent exactly when transaction_count() is 0;
\* otherwise it is the receipt of the most recent successful checkout and
\* its transaction id is transaction_count(); failed checkouts and
\* open_transaction never change last_receipt.
C25_LastReceiptMatchesCount ==
    [][/\ (last_receipt' = <<>>) <=> (transaction_counter' = 0)
       /\ last_receipt' # <<>> =>
             last_receipt'[1].transaction_id = transaction_counter'
       /\ (last'.op = "checkout" /\ last'.result = Ok) =>
             last_receipt'[1].cart_snapshot = items
       /\ (\/ last'.op = "checkout" /\ last'.result # Ok
           \/ last'.op = "open_transaction") =>
             last_receipt' = last_receipt]_vars

\* the stock of product_id in prods
StockOf(prods, product_id) == prods[product_id].stock

\* C21: every product's stock is >= 0 in every state reached through
\* registrations, restock, reduce_stock and checkout; restock(id, q) with
\* q > 0 raises the stock of a registered id by exactly q, reduce_stock(id, q)
\* with 0 < q <= stock lowers it by exactly q, and restock with q <= 0 and
\* reduce_stock with q <= 0 or q > stock fail and leave every stock as it was.
C21_StockNeverNegative ==
    /\ [](\A p \in 1 .. Len(products) : StockOf(products, p) >= 0)
    /\ [][/\ last'.op = "restock" =>
              LET id == last'.args[1]
                  q == last'.args[2]
              IN  /\ (q > 0 /\ Registered(products, id)) =>
                        /\ last'.result = Ok
                        /\ products' =
                               [products EXCEPT ![id].stock = @ + q]
                  /\ q <= 0 =>
                        /\ last'.result # Ok
                        /\ products' = products
          /\ last'.op = "reduce_stock" =>
              LET id == last'.args[1]
                  q == last'.args[2]
              IN  IF ~Registered(products, id)
                  THEN last'.result # Ok /\ products' = products
                  ELSE /\ (0 < q /\ q <= StockOf(products, id)) =>
                             /\ last'.result = Ok
                             /\ products' =
                                    [products EXCEPT ![id].stock = @ - q]
                       /\ (q <= 0 \/ q > StockOf(products, id)) =>
                             /\ last'.result # Ok
                             /\ products' = products]_vars

\* after a sale, reduce_stock was just refused for a quantity of 2 on a
\* product with 1 in stock
C21_ReduceAboveStockRefused ==
    /\ transaction_counter > 0
    /\ last.op = "reduce_stock"
    /\ last.result = ErrCannotReduce
    /\ StockOf(products, last.args[1]) = 1
    /\ last.args[2] = 2

\* C24: with one cart, and stock that changes through restock and checkout
\* only, the quantity of every cart line is at most the stock of its product
\* in every state, so a checkout that has passed the empty-cart check and the
\* payment check does not fail in reduce_stock.
C24_LinesWithinStock ==
    /\ [](\A i \in 1 .. Len(items) :
             items[i].quantity <= StockOf(products, items[i].id))
    /\ [][last'.op = "checkout" =>
              last'.result \in {Ok, ErrEmptyCart, ErrInsufficientPayment}]_vars

\* the quantity of product_id over the lines of its
RECURSIVE QuantityOf(_, _)
QuantityOf(its, product_id) ==
    IF its = <<>> THEN 0
    ELSE (IF Head(its).id = product_id THEN Head(its).quantity ELSE 0)
         + QuantityOf(Tail(its), product_id)

\* what the call just made adds to the account of product_id: the quantity
\* restocked, minus the quantity of a direct reduce_stock, minus the quantity
\* on the receipt a checkout produced; nothing for a call that raised
Accounted(product_id) ==
    IF last'.result # Ok THEN 0
    ELSE IF last'.op = "restock" /\ last'.args[1] = product_id
    THEN last'.args[2]
    ELSE IF last'.op = "reduce_stock" /\ last'.args[1] = product_id
    THEN 0 - last'.args[2]
    ELSE IF last'.op = "checkout"
    THEN 0 - QuantityOf(last_receipt'[1].cart_snapshot, product_id)
    ELSE 0

\* C26: stock is conserved against receipts: for every product the stock is
\* its stock at registration plus the quantities restocked, minus the
\* quantities of direct reduce_stock calls, minus its quantities on the
\* receipts produced so far. Stated call by call: every call changes the
\* stock of every registered product by exactly what it adds to that
\* account, so no unit leaves stock without a receipt.
C26_StockConserved ==
    [][\A p \in 1 .. Len(products) :
          StockOf(products', p) = StockOf(products, p) + Accounted(p)]_vars

\* C27: the controller does not gate calls on a sale being open or settled.
\* Right after a successful checkout an open_transaction changes nothing
\* (no cart line, not the discount, no stock, not transaction_count(), not
\* last_receipt), so the calls after it start from the same state with or
\* without it; and an add_to_cart within the stock right after a successful
\* checkout goes through without an open_transaction.
C27_OpenAfterCheckoutChangesNothing ==
    [][(last.op = "checkout" /\ last.result = Ok) =>
          /\ last'.op = "open_transaction" =>
                UNCHANGED <<products, next_id, items, discount_percent,
                            transaction_counter, last_receipt, receipts>>
          /\ (/\ last'.op = "add_to_cart"
              /\ Registered(products, last'.args[1])
              /\ last'.args[2] <= products[last'.args[1]].stock) =>
                last'.result = Ok]_vars

\* open_transaction was just called right after the sale of a discounted
\* cart, with stock left to sell
C27_OpenedAfterSale ==
    /\ last.op = "open_transaction"
    /\ last.prev.op = "checkout"
    /\ last_receipt # <<>>
    /\ last_receipt[1].discount_percent = 10
    /\ \E p \in 1 .. Len(products) : products[p].stock > 0

====
